---- MODULE Spec2Model ----
(***************************************************************************)
(* Model of the composite service-health endpoint GET /status of           *)
(* monitoring/api/routes/status.py: the process-wide status cache, the     *)
(* background refresh scheduler and the aggregation run over the probes.   *)
(*                                                                         *)
(* One step of the model is one uninterrupted stretch of a coroutine on    *)
(* the event loop: from the point where it is resumed to the next await    *)
(* that really suspends (a database round trip, the broker probe, the      *)
(* chain-head call, the session close) or to its return.                   *)
(***************************************************************************)
EXTENDS Integers, Sequences, FiniteSets, TLC

(***************************************************************************)
(* Bounds of the model.                                                    *)
(***************************************************************************)
MaxReqs == 1        \* HTTP requests being served at the same time
MaxTasks == 2       \* slots of the event loop for background refresh tasks
MaxElapsed == 31    \* seconds of wall-clock time explored after StartTime
MaxThreshold == 3   \* largest of the small thresholds the probe specifications draw
MaxGap == 3         \* seconds that pass while successive compute=true calls run
StartTime == 2000   \* wall-clock second at which the process starts (> 0)

Reqs == 1..MaxReqs
Tasks == 1..MaxTasks
\* The clock is sampled: it advances by the TTL or by the TTL and a second, so
\* that ages of 0, of exactly the TTL and of more than the TTL all occur.
TickSteps == {30, 31}

(***************************************************************************)
(* Program constants.                                                      *)
(***************************************************************************)
_STATUS_CACHE_TTL_SEC == 30
_STATUS_REFRESH_MIN_INTERVAL_SEC == 5
DetailMax == 200          \* str(e)[:200]
BlockLagMax == 10         \* block_lag > 10
NoTimestampAge == 1000000000   \* 10**9, the age of a source without timestamp

\* Python's None, for the cache entry (a snapshot record otherwise) ...
None == [none |-> TRUE]
\* ... for _STATUS_CACHE_TS (a positive time otherwise): None and 0.0 are both
\* falsy in `_STATUS_CACHE_TS and ...`, and the clock never reads 0 ...
NoTs == 0
\* ... and for an integer metric such as chain_head.
NoInt == -1

Max(a, b) == IF a >= b THEN a ELSE b

VARIABLES
    clock,                        \* time.time() / _now_epoch(), whole seconds
    _STATUS_CACHE,                \* None or the cached snapshot
    _STATUS_CACHE_TS,             \* NoTs or the time of the last cache write
    _STATUS_REFRESH_IN_PROGRESS,  \* the refresh flag
    deps,                         \* the state of the dependencies
    req,                          \* req[r]: the HTTP request suspended in slot r
    task,                         \* task[t]: the refresh task in slot t
    last,                         \* the handler call that returned in the last step
    last_trigger                  \* history: NoTs or when a refresh last started

vars == <<clock, _STATUS_CACHE, _STATUS_CACHE_TS, _STATUS_REFRESH_IN_PROGRESS,
          deps, req, task, last, last_trigger>>

(***************************************************************************)
(* Thresholds: the DEV_* environment variables of the process (deps.env),  *)
(* which get_status reads on every call.  DefaultEnv holds their defaults. *)
(***************************************************************************)
DefaultEnv ==
    [indexer_ok |-> 30, indexer_warn |-> 120,
     price_ok |-> 600, price_warn |-> 1800,
     relay_warn |-> 100, relay_crit |-> 1000]

idx_ok == deps.env.indexer_ok
idx_warn == deps.env.indexer_warn
price_ok == deps.env.price_ok
price_warn == deps.env.price_warn
relay_warn == deps.env.relay_warn
relay_crit == deps.env.relay_crit

Thresholds ==
    [indexer_ok |-> idx_ok, indexer_warn |-> idx_warn,
     price_ok |-> price_ok, price_warn |-> price_warn,
     relay_warn |-> relay_warn, relay_crit |-> relay_crit]

(***************************************************************************)
(* The dependencies.  deps is a record:                                    *)
(*   lib     which broker client library the process imported:            *)
(*           "async" (redis.asyncio), "sync" (redis only), "none"          *)
(*   db      "ok": statements answer; "error": every statement raises;    *)
(*           "no_tables": SELECT 1 answers, a statement that names a      *)
(*           table raises; "hang": no statement is ever answered;         *)
(*           "no_indexer_state": only a statement on indexer_state        *)
(*           raises; and, as one session sees it, "aborted": a statement  *)
(*           of the session's transaction has raised, and PostgreSQL      *)
(*           rejects every further statement of that transaction;         *)
(*           "long_error": as "error", with a message of more than        *)
(*           DetailMax characters                                         *)
(*   broker  "ok": the stream read answers; "xrev_denied": the stream read *)
(*           raises and the ping answers; "unreachable": both raise at     *)
(*           once; "timeout": nothing answers before the probe's deadline  *)
(*   rpc     "ok": eth_blockNumber answers; "unreachable": the call        *)
(*           raises; "hang": it is not answered                            *)
(*   rows    what the tables and the chain hold: MAX(updated_at) and       *)
(*           MAX(last_indexed_block) of indexer_state (NoInt for NULL),    *)
(*           the chain head, source and MAX(timestamp) of token_prices in  *)
(*           the order the query returns them (0 for NULL), the count of   *)
(*           pending price_requests and of unpublished outbox_events       *)
(*   env     the thresholds in the environment of the process              *)
(***************************************************************************)
Libs == {"async", "sync", "none"}
DbStates == {"ok", "error", "no_tables"}
BrokerStates == {"ok", "xrev_denied", "unreachable", "timeout"}
RpcStates == {"ok", "unreachable"}

\* Empty tables.
NoRows ==
    [updated_at |-> NoInt, last_block |-> NoInt, head |-> 105,
     prices |-> << >>, pending |-> 0, backlog |-> 0]
\* A pipeline that keeps up.
FreshRows ==
    [updated_at |-> StartTime, last_block |-> 100, head |-> 105,
     prices |-> << [source |-> "odos", ts |-> StartTime] >>,
     pending |-> 0, backlog |-> 0]
\* A pipeline that has fallen behind.
BehindRows ==
    [updated_at |-> StartTime - 100, last_block |-> 100, head |-> 120,
     prices |-> << [source |-> "odos", ts |-> StartTime - 700],
                   [source |-> "ypm", ts |-> 0] >>,
     pending |-> 3, backlog |-> 1500]

RowStates == {NoRows, FreshRows, BehindRows}

\* The broker's state only matters to a process that has the async client.
DepStates ==
    {d \in [lib : Libs, db : DbStates, broker : BrokerStates,
            rpc : RpcStates, rows : RowStates, env : {DefaultEnv}] :
        d.lib # "async" => d.broker = "ok"}

\* The rows of indexer_state: MAX(updated_at), MAX(last_indexed_block).
IndexerRow(d) == [updated_at |-> d.rows.updated_at, last_block |-> d.rows.last_block]

\* The chain head the RPC endpoint reports.
ChainHead(d) == d.rows.head

\* source, MAX(timestamp) of token_prices, in the order the query returns them
\* (a NULL timestamp reads as 0).
PriceRows(d) == d.rows.prices

\* COUNT(*) of pending price_requests.
PendingCount(d) == d.rows.pending

\* COUNT(*) of unpublished outbox_events.
Backlog(d) == d.rows.backlog

\* The message of the exception a failing dependency raises.
ErrorText(what) == what \o " error"

\* A message longer than DetailMax characters (203), as a driver's message
\* that quotes the statement and the connection parameters is.
Text50 == "could not connect to server: connection refused.. "
LongErrorText == Text50 \o Text50 \o Text50 \o Text50 \o "..."

(***************************************************************************)
(* Service entries and snapshots.                                          *)
(***************************************************************************)
NoMetrics == [k \in {} |-> 0]     \* {}

Svc(n, s, d, m) == [name |-> n, status |-> s, detail |-> d, metrics |-> m]

\* An exception leaving the code that a definition models.
Raised(msg) == [raised |-> msg]
IsRaised(x) == "raised" \in DOMAIN x

ServiceNames == <<"api", "postgres", "redis", "rpc", "indexer", "prices", "relay">>

\* Mutant: the comparisons are strict.
_status_from_age_strict(age_sec, ok, warn) ==
    IF age_sec < ok THEN "ok"
    ELSE IF age_sec < warn THEN "degraded"
    ELSE "down"

_status_from_age(age_sec, ok, warn) ==
    IF age_sec <= ok THEN "ok"
    ELSE IF age_sec <= warn THEN "degraded"
    ELSE "down"


\* str(e)[:200]
Truncate(msg) == IF Len(msg) <= DetailMax THEN msg ELSE SubSeq(msg, 1, DetailMax)

(***************************************************************************)
(* What the dependencies answer.  A database statement answers its value   *)
(* or raises.                                                              *)
(***************************************************************************)
Execute(d, table, value) ==
    IF \/ d.db = "ok"
       \/ d.db = "no_tables" /\ table = ""
       \/ d.db = "no_indexer_state" /\ table # "indexer_state"
    THEN [value |-> value]
    ELSE IF d.db = "long_error" THEN Raised(LongErrorText)
    ELSE Raised(ErrorText(CASE d.db = "error" -> "db"
                            [] d.db = "aborted" -> "transaction aborted"
                            [] OTHER -> table))

\* The database as the session of a run sees it.  AsyncSessionLocal() and
\* get_db give the run one session, which begins one transaction with its
\* first statement (the engine sets no autocommit, database.py 61-68) and
\* get_status never rolls back: once a statement has raised, the transaction
\* is aborted and every later statement of the run raises as well.
Session(run, d) == IF run.aborted THEN [d EXCEPT !.db = "aborted"] ELSE d

\* The run after a statement on table: its transaction is aborted if the
\* statement raised.
Executed(run, d, table) ==
    [run EXCEPT !.aborted = IsRaised(Execute(Session(run, d), table, 0))]

\* _get_chain_head_block under wait_for(1.0): the block number or None.
_get_chain_head_block(d) == IF d.rpc = "ok" THEN ChainHead(d) ELSE NoInt

\* Whether the await a run is suspended at ever comes back.  The broker probe
\* and the chain-head call are awaited under asyncio.wait_for (0.8 s and
\* 1.0 s), which comes back at the deadline; db.execute is awaited as it is,
\* and the engine sets no statement timeout (database.py 61-68).
Answers(run, d) ==
    run.pc \in {"db", "indexer", "prices", "pending", "relay"} => d.db # "hang"

(***************************************************************************)
(* The probes of get_status, each with its try/except.                     *)
(***************************************************************************)
\* Mutant: the detail of the api entry tells the time.
api_status_telling_time(now) ==
    Svc("api", "ok", "FastAPI responding at " \o ToString(now), [time |-> now])

api_status(now) == Svc("api", "ok", "FastAPI responding", [time |-> now])

\* Mutant: the liveness query is not wrapped in try/except.
db_status_unguarded(d) ==
    LET res == Execute(d, "", 1) IN
    IF IsRaised(res) THEN res
    ELSE Svc("postgres", "ok", "Connected", NoMetrics)

\* SELECT 1
db_status(d) ==
    LET res == Execute(d, "", 1) IN
    IF IsRaised(res)
    THEN Svc("postgres", "down", Truncate(res.raised), NoMetrics)
    ELSE IF res.value = 1
         THEN Svc("postgres", "ok", "Connected", NoMetrics)
         ELSE Svc("postgres", "down", "Query failed", NoMetrics)

\* The async client path: XREVRANGE, then PING, then close.
\* "late" stands for a coroutine that has not finished when the caller's
\* deadline passes (each socket operation waits 0.5 s, the caller 0.8 s).
redis_async_probe(d) ==
    CASE d.broker = "ok" ->
            Svc("redis", "ok", "xrevrange(events) ok", NoMetrics)
      [] d.broker = "xrev_denied" ->
            Svc("redis", "ok", "PONG", NoMetrics)
      [] d.broker = "unreachable" ->
            Svc("redis", "down", Truncate(ErrorText("broker")), NoMetrics)
      [] d.broker = "timeout" -> [late |-> TRUE]

\* The sync client path: asyncio.to_thread(_sync_probe) calls the coroutine
\* function _sync_probe in a thread and gets back a coroutine object, never the
\* dict; status.update(res) then raises TypeError, which the except clause
\* turns into unknown/"timeout" whatever the broker does.
redis_sync_probe(d) == Svc("redis", "unknown", "timeout", NoMetrics)

_probe_redis_status(d) ==
    CASE d.lib = "none" ->
            Svc("redis", "unknown", "redis client not installed", NoMetrics)
      [] d.lib = "async" -> redis_async_probe(d)
      [] d.lib = "sync" -> redis_sync_probe(d)

\* asyncio.wait_for(_probe_redis_status(), timeout=0.8) and its except clause
redis_status(d) ==
    LET res == _probe_redis_status(d) IN
    IF "late" \in DOMAIN res
    THEN Svc("redis", "unknown", "timeout", NoMetrics)
    ELSE res

\* Mutant: the rpc entry reports the chain-head call.
rpc_status_probed ==
    Svc("rpc", IF deps.rpc = "ok" THEN "ok" ELSE "down",
        "Frontend RPC monitoring active",
        [monitored_chains |-> <<"1", "137", "42161", "10", "8453">>,
         health_check |-> "frontend_based",
         note |-> "RPC health tracked by frontend error notifications"])

rpc_status ==
    Svc("rpc", "ok", "Frontend RPC monitoring active",
        [monitored_chains |-> <<"1", "137", "42161", "10", "8453">>,
         health_check |-> "frontend_based",
         note |-> "RPC health tracked by frontend error notifications"])

\* The indexer query and what follows it up to the chain-head call: the entry
\* when the query raised or found no row, the row otherwise.
indexer_query(d) ==
    LET res == Execute(d, "indexer_state", IndexerRow(d)) IN
    IF IsRaised(res)
    THEN Svc("indexer", "unknown", Truncate(res.raised), NoMetrics)
    ELSE IF res.value.updated_at = NoInt
         THEN Svc("indexer", "down", "No indexer_state rows", NoMetrics)
         ELSE [row |-> res.value]

\* The indexer entry from the row and the chain head.
\* Mutant: a lag of exactly the threshold already counts as lagging.
indexer_status_lag_at_threshold(now, row, chain_head) ==
    LET age == Max(0, now - row.updated_at)
        indexed_block == Max(row.last_block, 0)
        age_status == _status_from_age(age, idx_ok, idx_warn)
        lagged == chain_head # NoInt /\ indexed_block > 0
        block_lag == IF lagged THEN Max(0, chain_head - indexed_block) ELSE 0
        block_lag_status == IF lagged /\ block_lag >= BlockLagMax
                            THEN "degraded" ELSE "ok"
        final_status ==
            IF age_status = "down" \/ block_lag_status = "down" THEN "down"
            ELSE IF age_status = "degraded" \/ block_lag_status = "degraded"
                 THEN "degraded"
                 ELSE "ok"
        detail == "updated " \o ToString(age) \o "s ago" \o
                  (IF chain_head # NoInt
                   THEN ", " \o ToString(block_lag) \o " blocks behind" ELSE "")
    IN  Svc("indexer", final_status, detail,
            [last_block |-> indexed_block, age_sec |-> age,
             chain_head |-> chain_head, block_lag |-> block_lag])

indexer_status(now, row, chain_head) ==
    LET age == Max(0, now - row.updated_at)
        indexed_block == Max(row.last_block, 0)    \* int(row[1] or 0)
        age_status == _status_from_age(age, idx_ok, idx_warn)
        lagged == chain_head # NoInt /\ indexed_block > 0
        block_lag == IF lagged THEN Max(0, chain_head - indexed_block) ELSE 0
        block_lag_status == IF lagged /\ block_lag > BlockLagMax
                            THEN "degraded" ELSE "ok"
        final_status ==
            IF age_status = "down" \/ block_lag_status = "down" THEN "down"
            ELSE IF age_status = "degraded" \/ block_lag_status = "degraded"
                 THEN "degraded"
                 ELSE "ok"
        detail == "updated " \o ToString(age) \o "s ago" \o
                  (IF chain_head # NoInt
                   THEN ", " \o ToString(block_lag) \o " blocks behind" ELSE "")
    IN  Svc("indexer", final_status, detail,
            [last_block |-> indexed_block, age_sec |-> age,
             chain_head |-> chain_head, block_lag |-> block_lag])

\* The first price query: the rows, or the entry when it raised.
price_query(d) ==
    LET res == Execute(d, "token_prices", PriceRows(d)) IN
    IF IsRaised(res)
    THEN Svc("prices", "unknown", Truncate(res.raised), NoMetrics)
    ELSE [rows |-> res.value]

StatusOrder(st) == CASE st = "ok" -> 0 [] st = "degraded" -> 1 [] st = "down" -> 2
                     [] OTHER -> 0

SourceAge(now, ts) == IF ts > 0 THEN Max(0, now - ts) ELSE NoTimestampAge

\* Mutant: the status of the last row, not the worst of the rows.
WorstOf_last_row(now, rows, worst) ==
    IF rows = << >> THEN worst
    ELSE _status_from_age(SourceAge(now, rows[Len(rows)].ts), price_ok, price_warn)

RECURSIVE WorstOf(_, _, _)
\* the loop over the rows: the worst status so far
WorstOf(now, rows, worst) ==
    IF rows = << >> THEN worst
    ELSE LET st == _status_from_age(SourceAge(now, Head(rows).ts), price_ok, price_warn)
         IN  WorstOf(now, Tail(rows),
                     IF StatusOrder(st) > StatusOrder(worst) THEN st ELSE worst)

\* per_source: a later row of the same source replaces an earlier one
PerSource(now, rows) ==
    [src \in {rows[i].source : i \in DOMAIN rows} |->
        LET latest == CHOOSE i \in DOMAIN rows :
                        /\ rows[i].source = src
                        /\ \A j \in DOMAIN rows : rows[j].source = src => j <= i
            age == SourceAge(now, rows[latest].ts)
        IN  [age_sec |-> age, status |-> _status_from_age(age, price_ok, price_warn)]]

\* The pending count and the prices entry.
\* Mutant: the status is the worst of the sources whatever the pending count.
price_status_ignoring_pending(now, rows, d) ==
    LET res2 == Execute(d, "price_requests", PendingCount(d)) IN
    IF IsRaised(res2)
    THEN Svc("prices", "unknown", Truncate(res2.raised), NoMetrics)
    ELSE LET pending == res2.value
             worst == WorstOf(now, rows, "ok")
             final_status == IF rows # << >> THEN worst ELSE "unknown"
         IN  Svc("prices", final_status, "pending: " \o ToString(pending),
                 [pending |-> pending, sources |-> PerSource(now, rows)])

price_status(now, rows, d) ==
    LET res2 == Execute(d, "price_requests", PendingCount(d)) IN
    IF IsRaised(res2)
    THEN Svc("prices", "unknown", Truncate(res2.raised), NoMetrics)
    ELSE LET pending == res2.value
             worst == WorstOf(now, rows, "ok")
             final_status == IF pending = 0 THEN "ok"
                             ELSE IF rows # << >> THEN worst ELSE "unknown"
         IN  Svc("prices", final_status, "pending: " \o ToString(pending),
                 [pending |-> pending, sources |-> PerSource(now, rows)])

\* Mutant: the relay query is not wrapped in try/except.
relay_status_unguarded(d) ==
    LET res == Execute(d, "outbox_events", Backlog(d)) IN
    IF IsRaised(res) THEN res
    ELSE LET backlog == res.value
             st == IF backlog >= relay_crit THEN "down"
                   ELSE IF backlog >= relay_warn THEN "degraded"
                   ELSE "ok"
         IN  Svc("relay", st, "unpublished: " \o ToString(backlog),
                 [unpublished |-> backlog])

\* Mutant: the backlog comparisons are strict.
relay_status_strict(d) ==
    LET res == Execute(d, "outbox_events", Backlog(d)) IN
    IF IsRaised(res)
    THEN Svc("relay", "unknown", Truncate(res.raised), NoMetrics)
    ELSE LET backlog == res.value
             st == IF backlog > relay_crit THEN "down"
                   ELSE IF backlog > relay_warn THEN "degraded"
                   ELSE "ok"
         IN  Svc("relay", st, "unpublished: " \o ToString(backlog),
                 [unpublished |-> backlog])

relay_status(d) ==
    LET res == Execute(d, "outbox_events", Backlog(d)) IN
    IF IsRaised(res)
    THEN Svc("relay", "unknown", Truncate(res.raised), NoMetrics)
    ELSE LET backlog == res.value
             st == IF backlog >= relay_crit THEN "down"
                   ELSE IF backlog >= relay_warn THEN "degraded"
                   ELSE "ok"
         IN  Svc("relay", st, "unpublished: " \o ToString(backlog),
                 [unpublished |-> backlog])

\* Mutant: the result is stamped with the clock at the time it is built.
Result_stamped_on_return(now, services) ==
    [generated_at |-> clock, thresholds |-> Thresholds, services |-> services]

\* result = {...} of an aggregation run
Result(now, services) ==
    [generated_at |-> now, thresholds |-> Thresholds, services |-> services]

\* The placeholder of the cold cache.
Loading(n) == Svc(n, "unknown", "loading", NoMetrics)

\* Mutant: the placeholder is not marked stale.
Placeholder_not_stale(now) ==
    [generated_at |-> now, thresholds |-> Thresholds,
     services |-> <<api_status(now), Loading("postgres"), Loading("redis"),
                    Loading("rpc"), Loading("indexer"), Loading("prices"),
                    Loading("relay")>>,
     stale |-> FALSE]

Placeholder(now) ==
    [generated_at |-> now, thresholds |-> Thresholds,
     services |-> <<api_status(now), Loading("postgres"), Loading("redis"),
                    Loading("rpc"), Loading("indexer"), Loading("prices"),
                    Loading("relay")>>,
     stale |-> TRUE]

(***************************************************************************)
(* A call of get_status in progress: compute is the query parameter, pc    *)
(* the await it is suspended at, now the _now_epoch() it read on entry,    *)
(* services the entries appended so far, tmp the locals that live across   *)
(* an await, awaits the number of times it has been suspended, stored      *)
(* whether the refresh task it runs in has stored its result, aborted      *)
(* whether the transaction of its session is aborted.                      *)
(***************************************************************************)
RunPcs == {"db", "redis", "indexer", "head", "prices", "pending", "relay"}

Idle == [pc |-> "idle", compute |-> FALSE, now |-> 0, services |-> << >>,
         tmp |-> None, awaits |-> 0, stored |-> FALSE, aborted |-> FALSE]

\* Entry of the compute path: the api entry is appended and SELECT 1 awaited.
get_status_enter(p, now) ==
    [p EXCEPT !.pc = "db", !.now = now, !.services = <<api_status(now)>>,
              !.awaits = 1]

\* Mutant: an entry of status unknown is not appended.
Then_dropping_unknown(run, svc, pc) ==
    IF IsRaised(svc) THEN svc
    ELSE [run EXCEPT !.services = IF svc.status = "unknown" THEN @ ELSE Append(@, svc),
                     !.pc = pc, !.tmp = None,
                     !.awaits = IF pc = "return" THEN @ ELSE @ + 1]

\* services.append(...) and on to the next await
Then(run, svc, pc) ==
    IF IsRaised(svc) THEN svc
    ELSE [run EXCEPT !.services = Append(@, svc), !.pc = pc, !.tmp = None,
                     !.awaits = IF pc = "return" THEN @ ELSE @ + 1]

\* get_status from the await it is suspended at to the next one; pc "return"
\* when it has reached the end of the probes.
get_status_resume(run, d) ==
    LET db == Session(run, d) IN
    CASE run.pc = "db" -> Then(Executed(run, d, ""), db_status(db), "redis")
      [] run.pc = "redis" ->
            LET r == Then(run, redis_status(d), "redis")
            IN  IF IsRaised(r) THEN r
                ELSE Then([r EXCEPT !.awaits = run.awaits], rpc_status, "indexer")
      [] run.pc = "indexer" ->
            LET q == indexer_query(db)
            IN  IF "row" \in DOMAIN q
                THEN [run EXCEPT !.pc = "head", !.tmp = q, !.awaits = @ + 1]
                ELSE Then(Executed(run, d, "indexer_state"), q, "prices")
      [] run.pc = "head" ->
            Then(run, indexer_status(run.now, run.tmp.row, _get_chain_head_block(d)),
                 "prices")
      [] run.pc = "prices" ->
            LET q == price_query(db)
            IN  IF "rows" \in DOMAIN q
                THEN [run EXCEPT !.pc = "pending", !.tmp = q, !.awaits = @ + 1]
                ELSE Then(Executed(run, d, "token_prices"), q, "relay")
      [] run.pc = "pending" ->
            Then(Executed(run, d, "price_requests"),
                 price_status(run.now, run.tmp.rows, db), "relay")
      [] run.pc = "relay" ->
            Then(Executed(run, d, "outbox_events"), relay_status(db), "return")

(***************************************************************************)
(* The handler call that returned in the step leading to the state:        *)
(* NoCall, or its query parameter, the time it returned, how often it was  *)
(* suspended, how it ended ("200", or "500" when an exception left the     *)
(* handler), the body it returned, whether a refresh task was in flight    *)
(* when it returned, whether it started one, and the cache entry and its   *)
(* timestamp as they were when it returned (before a compute=true call     *)
(* stored its own result).                                                 *)
(***************************************************************************)
NoCall == [returned |-> FALSE, ended |-> FALSE]

Returned(compute, awaits, outcome, resp, started) ==
    [returned |-> TRUE, ended |-> FALSE, compute |-> compute, awaits |-> awaits,
     outcome |-> outcome, resp |-> resp,
     busy |-> \E t \in Tasks : task[t].pc # "idle", started |-> started,
     prev |-> _STATUS_CACHE, prev_ts |-> _STATUS_CACHE_TS]

\* Or the refresh task that ended in the step leading to the state: whether an
\* exception ended it and where ("open": entering the async with block,
\* "close": leaving it), and whether it had stored its result.
Ended(failed, phase, stored) ==
    [returned |-> FALSE, ended |-> TRUE, failed |-> failed, phase |-> phase,
     stored |-> stored]

(***************************************************************************)
(* The refresh scheduler.                                                  *)
(***************************************************************************)
InFlight == {t \in Tasks : task[t].pc # "idle"}

\* create_task: the new task takes the first free slot of the event loop
Created(t) ==
    /\ task[t].pc = "idle"
    /\ \A u \in Tasks : task[u].pc = "idle" => t <= u
    /\ task' = [task EXCEPT ![t] = [Idle EXCEPT !.pc = "created", !.compute = TRUE]]

NotScheduled == UNCHANGED <<_STATUS_REFRESH_IN_PROGRESS, task, last_trigger>>

\* Mutant: the flag is not set when the task is created.
_schedule_not_setting_flag ==
    LET now == clock IN
    IF _STATUS_REFRESH_IN_PROGRESS
    THEN NotScheduled
    ELSE IF _STATUS_CACHE_TS # NoTs
            /\ (now - _STATUS_CACHE_TS) < _STATUS_REFRESH_MIN_INTERVAL_SEC
         THEN NotScheduled
         ELSE /\ UNCHANGED _STATUS_REFRESH_IN_PROGRESS
              /\ \E t \in Tasks : Created(t)
              /\ last_trigger' = now

\* Mutant: the debounce comparison is the wrong way round.
_schedule_debounce_reversed ==
    LET now == clock IN
    IF _STATUS_REFRESH_IN_PROGRESS
    THEN NotScheduled
    ELSE IF _STATUS_CACHE_TS # NoTs
            /\ (now - _STATUS_CACHE_TS) > _STATUS_REFRESH_MIN_INTERVAL_SEC
         THEN NotScheduled
         ELSE /\ _STATUS_REFRESH_IN_PROGRESS' = TRUE
              /\ \E t \in Tasks : Created(t)
              /\ last_trigger' = now

\* Mutant: the in-progress flag is not consulted.
_schedule_ignoring_flag ==
    LET now == clock IN
    IF _STATUS_CACHE_TS # NoTs
       /\ (now - _STATUS_CACHE_TS) < _STATUS_REFRESH_MIN_INTERVAL_SEC
    THEN NotScheduled
    ELSE /\ _STATUS_REFRESH_IN_PROGRESS' = TRUE
         /\ \E t \in Tasks : Created(t)
         /\ last_trigger' = now

\* (get_running_loop() cannot raise here: the only caller is the coroutine
\* get_status, which runs on the loop.)
_schedule_status_refresh ==
    LET now == clock IN
    IF _STATUS_REFRESH_IN_PROGRESS
    THEN NotScheduled
    ELSE IF _STATUS_CACHE_TS # NoTs
            /\ (now - _STATUS_CACHE_TS) < _STATUS_REFRESH_MIN_INTERVAL_SEC
         THEN NotScheduled
         ELSE /\ _STATUS_REFRESH_IN_PROGRESS' = TRUE
              /\ \E t \in Tasks : Created(t)
              /\ last_trigger' = now

(***************************************************************************)
(* GET /status.                                                            *)
(***************************************************************************)
\* Mutant: the refresh is triggered at the TTL, not past it.
get_status_cached_at_ttl(r, compute) ==
    LET now == clock IN
    /\ IF _STATUS_CACHE # None
       THEN /\ IF _STATUS_CACHE_TS # NoTs
                  /\ (clock - _STATUS_CACHE_TS) >= _STATUS_CACHE_TTL_SEC
               THEN _schedule_status_refresh
               ELSE NotScheduled
            /\ last' = Returned(compute, 0, "200", _STATUS_CACHE, task' # task)
       ELSE /\ _schedule_status_refresh
            /\ last' = Returned(compute, 0, "200", Placeholder(now), task' # task)
    /\ UNCHANGED <<req, _STATUS_CACHE, _STATUS_CACHE_TS>>

\* Mutant: the cold placeholder is stored in the cache.
get_status_cached_storing_placeholder(r, compute) ==
    LET now == clock IN
    /\ IF _STATUS_CACHE # None
       THEN /\ IF _STATUS_CACHE_TS # NoTs
                  /\ (clock - _STATUS_CACHE_TS) > _STATUS_CACHE_TTL_SEC
               THEN _schedule_status_refresh
               ELSE NotScheduled
            /\ last' = Returned(compute, 0, "200", _STATUS_CACHE, task' # task)
            /\ UNCHANGED <<_STATUS_CACHE, _STATUS_CACHE_TS>>
       ELSE /\ _schedule_status_refresh
            /\ last' = Returned(compute, 0, "200", Placeholder(now), task' # task)
            /\ _STATUS_CACHE' = Placeholder(now)
            /\ _STATUS_CACHE_TS' = clock
    /\ UNCHANGED req

\* The fast path (not compute): no await between entry and return.
get_status_cached(r, compute) ==
    LET now == clock IN
    /\ IF _STATUS_CACHE # None
       THEN /\ IF _STATUS_CACHE_TS # NoTs
                  /\ (clock - _STATUS_CACHE_TS) > _STATUS_CACHE_TTL_SEC
               THEN _schedule_status_refresh
               ELSE NotScheduled
            /\ last' = Returned(compute, 0, "200", _STATUS_CACHE, task' # task)
       ELSE /\ _schedule_status_refresh
            /\ last' = Returned(compute, 0, "200", Placeholder(now), task' # task)
    /\ UNCHANGED <<req, _STATUS_CACHE, _STATUS_CACHE_TS>>

\* The compute path up to its first await; the suspended call takes slot r.
get_status_compute(r, compute) ==
    /\ req[r].pc = "idle"
    /\ \A u \in Reqs : req[u].pc = "idle" => r <= u
    /\ req' = [req EXCEPT ![r] = get_status_enter([@ EXCEPT !.compute = compute], clock)]
    /\ last' = NoCall
    /\ UNCHANGED <<_STATUS_CACHE, _STATUS_CACHE_TS>>
    /\ NotScheduled

\* Mutant: the fast path is missing, every request runs the probes.
get_status_without_fast_path(r, compute) == get_status_compute(r, compute)

get_status(r, compute) ==
    IF ~compute THEN get_status_cached(r, compute) ELSE get_status_compute(r, compute)

\* A request arrives and its handler runs to its first await or to its return.
Request(r, compute) ==
    /\ get_status(r, compute)
    /\ UNCHANGED <<clock, deps>>

\* The same, from a client that sends a compute request only when its last
\* compute request has been answered.
ClientRequest(r, compute) ==
    /\ compute => \A u \in Reqs : req[u].pc = "idle"
    /\ Request(r, compute)

\* Mutant: only the timestamp is written.
UpdateCache_timestamp_only(result) ==
    /\ UNCHANGED _STATUS_CACHE
    /\ _STATUS_CACHE_TS' = clock

\* The end of get_status: the cache is updated and the result returned.
UpdateCache(result) ==
    /\ _STATUS_CACHE' = result
    /\ _STATUS_CACHE_TS' = clock

\* The handler of a suspended request is resumed.
ReqResume(r) ==
    /\ req[r].pc \in RunPcs
    /\ Answers(req[r], deps)
    /\ LET run == get_status_resume(req[r], deps) IN
       IF IsRaised(run)
       THEN /\ req' = [req EXCEPT ![r] = Idle]
            /\ last' = Returned(req[r].compute, req[r].awaits, "500", None, FALSE)
            /\ UNCHANGED <<_STATUS_CACHE, _STATUS_CACHE_TS>>
       ELSE IF run.pc = "return"
            THEN LET result == Result(run.now, run.services) IN
                 /\ UpdateCache(result)
                 /\ req' = [req EXCEPT ![r] = Idle]
                 /\ last' = Returned(run.compute, run.awaits, "200", result, FALSE)
            ELSE /\ req' = [req EXCEPT ![r] = run]
                 /\ last' = NoCall
                 /\ UNCHANGED <<_STATUS_CACHE, _STATUS_CACHE_TS>>
    /\ UNCHANGED <<clock, deps, _STATUS_REFRESH_IN_PROGRESS, task, last_trigger>>

(***************************************************************************)
(* _rebuild_status_cache, the background refresh task.                     *)
(***************************************************************************)
\* Mutant: the flag is cleared on success only (no finally clause).
RebuildFinally_after_success(t) ==
    /\ _STATUS_REFRESH_IN_PROGRESS' =
            IF task[t].stored THEN FALSE ELSE _STATUS_REFRESH_IN_PROGRESS
    /\ task' = [task EXCEPT ![t] = Idle]

\* finally: the flag is cleared and the task ends.
RebuildFinally(t) ==
    /\ _STATUS_REFRESH_IN_PROGRESS' = FALSE
    /\ task' = [task EXCEPT ![t] = Idle]

\* except Exception: pass, then finally
RebuildExcept(t) ==
    /\ UNCHANGED <<_STATUS_CACHE, _STATUS_CACHE_TS>>
    /\ RebuildFinally(t)

\* The task starts: the session is opened (or opening it raises) and
\* get_status(compute=True) runs to its first await.
RebuildStart(t, opened) ==
    /\ task[t].pc = "created"
    /\ IF opened
       THEN /\ task' = [task EXCEPT ![t] = get_status_enter(@, clock)]
            /\ last' = NoCall
            /\ UNCHANGED <<_STATUS_REFRESH_IN_PROGRESS, _STATUS_CACHE, _STATUS_CACHE_TS>>
       ELSE /\ RebuildExcept(t)
            /\ last' = Ended(TRUE, "open", FALSE)
    /\ UNCHANGED <<clock, deps, req, last_trigger>>

\* get_status is resumed inside the task; when it returns, the task stores the
\* result again and leaves the async with block, which awaits session.close().
RebuildResume(t) ==
    /\ task[t].pc \in RunPcs
    /\ Answers(task[t], deps)
    /\ LET run == get_status_resume(task[t], deps) IN
       IF IsRaised(run)
       THEN /\ task' = [task EXCEPT ![t] = [@ EXCEPT !.pc = "close"]]
            /\ UNCHANGED <<_STATUS_CACHE, _STATUS_CACHE_TS>>
       ELSE IF run.pc = "return"
            THEN /\ UpdateCache(Result(run.now, run.services))
                 /\ task' = [task EXCEPT ![t] = [run EXCEPT !.pc = "close",
                                                             !.stored = TRUE]]
            ELSE /\ task' = [task EXCEPT ![t] = run]
                 /\ UNCHANGED <<_STATUS_CACHE, _STATUS_CACHE_TS>>
    /\ last' = NoCall
    /\ UNCHANGED <<clock, deps, req, _STATUS_REFRESH_IN_PROGRESS, last_trigger>>

\* session.close() has answered, or it has raised: except Exception: pass;
\* then finally.
RebuildClose(t, closed) ==
    /\ task[t].pc = "close"
    /\ IF closed
       THEN /\ RebuildFinally(t)
            /\ UNCHANGED <<_STATUS_CACHE, _STATUS_CACHE_TS>>
       ELSE RebuildExcept(t)
    /\ last' = Ended(~closed, "close", task[t].stored)
    /\ UNCHANGED <<clock, deps, req, last_trigger>>

(***************************************************************************)
(* The environment.                                                        *)
(***************************************************************************)
Tick(d) ==
    /\ clock + d <= StartTime + MaxElapsed
    /\ clock' = clock + d
    /\ last' = NoCall
    /\ UNCHANGED <<deps, req, task, _STATUS_CACHE, _STATUS_CACHE_TS,
                   _STATUS_REFRESH_IN_PROGRESS, last_trigger>>

Init ==
    /\ clock = StartTime
    /\ _STATUS_CACHE = None
    /\ _STATUS_CACHE_TS = NoTs
    /\ _STATUS_REFRESH_IN_PROGRESS = FALSE
    /\ deps \in DepStates
    /\ req = [r \in Reqs |-> Idle]
    /\ task = [t \in Tasks |-> Idle]
    /\ last = NoCall
    /\ last_trigger = NoTs

Background ==
    \/ \E r \in Reqs : ReqResume(r)
    \/ \E t \in Tasks, opened \in BOOLEAN : RebuildStart(t, opened)
    \/ \E t \in Tasks : RebuildResume(t)
    \/ \E t \in Tasks, closed \in BOOLEAN : RebuildClose(t, closed)
    \/ \E d \in TickSteps : Tick(d)

Next ==
    \/ \E r \in Reqs, compute \in BOOLEAN : ClientRequest(r, compute)
    \/ Background

\* Every state of the dependencies (it stays as it is during a behaviour) and
\* one client.
Spec == Init /\ [][Next]_vars

\* Concurrent clients, with the database up or down.
InitConc ==
    /\ Init
    /\ deps.lib = "async" /\ deps.broker = "ok" /\ deps.rpc = "ok"
    /\ deps.rows = FreshRows /\ deps.db \in {"ok", "error"}

NextConc ==
    \/ \E r \in Reqs, compute \in BOOLEAN : Request(r, compute)
    \/ Background

SpecConc == InitConc /\ [][NextConc]_vars

(***************************************************************************)
(* Specifications of the threshold logic of the probes: the rows the       *)
(* tables hold and the thresholds of the environment are drawn from the    *)
(* sets below, and compute=true requests run the probes over them, with    *)
(* the clock at StartTime.                                                 *)
(***************************************************************************)
SteadyDeps ==
    [lib |-> "none", db |-> "ok", broker |-> "ok", rpc |-> "ok",
     rows |-> FreshRows, env |-> DefaultEnv]

\* (ok, warn) or (warn, crit): every pair of small values, in either order, and
\* one pair of realistic ones
ThresholdPairs(pair) == ((0..MaxThreshold) \X (0..MaxThreshold)) \cup {pair}

\* ages in seconds: across the small thresholds and between the realistic ones
Ages == (0..(MaxThreshold + 1)) \cup {45}

\* MAX(timestamp) of a source: of one of the ages, or NULL
Timestamps == {StartTime - a : a \in Ages} \cup {0}

\* GROUP BY source: at most one row for each source
PriceRowSets ==
    {<< >>}
    \cup {<<[source |-> "odos", ts |-> t]>> : t \in Timestamps}
    \cup {<<[source |-> "odos", ts |-> t], [source |-> "ypm", ts |-> u]>> :
            t \in Timestamps, u \in Timestamps}

PriceInputs ==
    {[SteadyDeps EXCEPT !.db = db, !.rows.prices = p, !.rows.pending = n,
                        !.env.price_ok = th[1], !.env.price_warn = th[2]] :
        db \in {"ok", "no_tables"}, p \in PriceRowSets, n \in {0, 3},
        th \in ThresholdPairs(<<30, 120>>)}

\* COUNT(*) of unpublished events
Backlogs == (0..(MaxThreshold + 1)) \cup {99, 100, 999, 1000, 1500}

RelayInputs ==
    {[SteadyDeps EXCEPT !.rows.backlog = n,
                        !.env.relay_warn = th[1], !.env.relay_crit = th[2]] :
        n \in Backlogs, th \in ThresholdPairs(<<100, 1000>>)}

\* the indexer row and the chain: ages across the default thresholds, the last
\* block NULL, 0 or 100, the head behind, at, and up to 20 blocks ahead of 100
IndexerAges == {0, 30, 31, 45, 120, 121}
LastBlocks == {NoInt, 0, 100}
Heads == {90, 100, 110, 111, 120}

IndexerInputs ==
    {[SteadyDeps EXCEPT !.rpc = rpc, !.rows.updated_at = StartTime - a,
                        !.rows.last_block = b, !.rows.head = h] :
        rpc \in RpcStates \cup {"hang"}, a \in IndexerAges, b \in LastBlocks,
        h \in Heads}

\* Two and more compute=true requests one after the other, the clock advancing
\* by seconds; no read, so no refresh task: the cache entry a compute=true
\* call finds is the snapshot the compute=true call before it returned.
\* Rows about to pass the ok thresholds of the indexer and of the prices.
AgeingRows ==
    [FreshRows EXCEPT !.updated_at = StartTime - (DefaultEnv.indexer_ok - 1),
                      !.prices = << [source |-> "odos",
                                     ts |-> StartTime - (DefaultEnv.price_ok - 1)] >>,
                      !.pending = 3]

TwiceInputs ==
    {[SteadyDeps EXCEPT !.db = db, !.rpc = rpc, !.rows = rows] :
        db \in {"ok", "error"}, rpc \in RpcStates,
        rows \in RowStates \cup {AgeingRows}}

InitProbes(inputs) ==
    /\ clock = StartTime
    /\ _STATUS_CACHE = None
    /\ _STATUS_CACHE_TS = NoTs
    /\ _STATUS_REFRESH_IN_PROGRESS = FALSE
    /\ deps \in inputs
    /\ req = [r \in Reqs |-> Idle]
    /\ task = [t \in Tasks |-> Idle]
    /\ last = NoCall
    /\ last_trigger = NoTs

NextProbes ==
    \/ \E r \in Reqs : ClientRequest(r, TRUE)
    \/ \E r \in Reqs : ReqResume(r)

NextTwice ==
    \/ NextProbes
    \/ \E d \in {1} : clock + d <= StartTime + MaxGap /\ Tick(d)

InitTwice == InitProbes(TwiceInputs)
SpecTwice == InitTwice /\ [][NextTwice]_vars

(***************************************************************************)
(* Dependencies that stop answering, under the scheduling of the event     *)
(* loop: a refresh task that can run is run.                               *)
(***************************************************************************)
HangInputs ==
    {[SteadyDeps EXCEPT !.lib = "async", !.db = db, !.broker = broker, !.rpc = rpc] :
        db \in {"ok", "error", "long_error", "hang"},
        broker \in {"ok", "timeout"}, rpc \in {"ok", "hang"}}

TaskSteps ==
    \E t \in Tasks :
        \/ \E opened \in BOOLEAN : RebuildStart(t, opened)
        \/ RebuildResume(t)
        \/ \E closed \in BOOLEAN : RebuildClose(t, closed)

InitHang == InitProbes(HangInputs)
SpecHang == InitHang /\ [][Next]_vars /\ WF_vars(TaskSteps)

InitPrices == InitProbes(PriceInputs)
SpecPrices == InitPrices /\ [][NextProbes]_vars

\* One table out of reach: compute=true requests against a database where only
\* the statement on indexer_state raises, whatever the price sources, the
\* pending count and the backlog.
IsolationInputs ==
    {[SteadyDeps EXCEPT !.db = db, !.rpc = rpc, !.rows = rows,
                        !.rows.pending = n, !.rows.backlog = b] :
        db \in {"ok", "no_indexer_state"}, rpc \in RpcStates,
        rows \in RowStates, n \in {0, 3}, b \in Backlogs}

InitIsolation == InitProbes(IsolationInputs)
SpecIsolation == InitIsolation /\ [][NextProbes]_vars

\* Either client library, or none, against every state of the broker.
BrokerInputs ==
    {[SteadyDeps EXCEPT !.lib = lib, !.broker = broker, !.rpc = rpc] :
        lib \in Libs, broker \in BrokerStates, rpc \in RpcStates}

InitBroker == InitProbes(BrokerInputs)
SpecBroker == InitBroker /\ [][NextProbes]_vars

InitRelay == InitProbes(RelayInputs)
SpecRelay == InitRelay /\ [][NextProbes]_vars

InitIndexer == InitProbes(IndexerInputs)
SpecIndexer == InitIndexer /\ [][NextProbes]_vars

(***************************************************************************)
(* Properties.                                                             *)
(***************************************************************************)
Read == last.returned /\ ~last.compute       \* a non-compute call just returned
Computed == last.returned /\ last.compute    \* a compute=true call just returned
Cold == _STATUS_CACHE = None
Age == clock - _STATUS_CACHE_TS
Warm == ~Cold /\ Age <= _STATUS_CACHE_TTL_SEC
Stale == ~Cold /\ Age > _STATUS_CACHE_TTL_SEC
\* A read leaves the cache, its timestamp and the clock as they were, so Cold,
\* Warm and Stale in the state a read leads to are those the read saw.

\* C1: a request without compute=true is never suspended (it runs no probe and
\* waits on nothing): it returns, in the step in which it arrived, the cached
\* snapshot or, on a cold cache, the placeholder.
C1_ReadReturnsAtOnce ==
    Read => /\ last.awaits = 0
            /\ last.resp = IF Cold THEN Placeholder(clock) ELSE _STATUS_CACHE

\* a read answered from a stale cache while a refresh is in flight
C1_Witness == Read /\ Stale /\ last.busy

\* C2: whatever the dependencies do, a call of GET /status, cached or
\* compute=true, ends with a normal response that holds a services list.
C2_AlwaysSnapshot ==
    last.returned => /\ last.outcome = "200"
                     /\ "services" \in DOMAIN last.resp
                     /\ Len(last.resp.services) > 0

\* a compute=true call returned with the database and the broker failing
C2_Witness ==
    /\ Computed
    /\ deps.db = "error" /\ deps.broker \in {"unreachable", "timeout"}
    /\ deps.rpc = "unreachable"

\* C3: at most one background refresh task is in flight.
C3_OneRefresh == Cardinality(InFlight) <= 1

\* a read arrived on a stale cache while a refresh task and a compute request
\* were both suspended, and started nothing
C3_Witness ==
    /\ Read /\ Stale /\ ~last.started
    /\ Cardinality(InFlight) = 1
    /\ \E r \in Reqs : req[r].pc \in RunPcs
    /\ \E t \in Tasks : task[t].pc \in RunPcs

RefreshStarts == \E t \in Tasks : task[t].pc = "idle" /\ task'[t].pc = "created"

\* C4: a refresh starts only when none is in progress and at least
\* min_refresh_interval has passed since the refresh before it started, also
\* when that one has failed.
C4_Debounce ==
    [][RefreshStarts =>
          /\ ~_STATUS_REFRESH_IN_PROGRESS
          /\ \/ last_trigger = NoTs
             \/ clock - last_trigger >= _STATUS_REFRESH_MIN_INTERVAL_SEC]_vars

\* C5 as claimed: the cold read returns stale=true with every entry
\* unknown/"loading".
C5_AllUnknown ==
    (Read /\ Cold) =>
        /\ last.resp.stale
        /\ \A i \in DOMAIN last.resp.services :
              /\ last.resp.services[i].status = "unknown"
              /\ last.resp.services[i].detail = "loading"

\* C5, amended: the cold read returns stale=true with the api entry ok and every
\* other entry unknown/"loading".
C5_Placeholder ==
    (Read /\ Cold) =>
        /\ "stale" \in DOMAIN last.resp /\ last.resp.stale
        /\ DOMAIN last.resp.services = DOMAIN ServiceNames
        /\ \A i \in DOMAIN last.resp.services :
              LET e == last.resp.services[i] IN
              /\ e.name = ServiceNames[i]
              /\ IF e.name = "api"
                 THEN e.status = "ok" /\ e.detail = "FastAPI responding"
                 ELSE e.status = "unknown" /\ e.detail = "loading"

\* a read on the cold cache returned
C5_Witness == Read /\ Cold /\ last.resp.generated_at = clock

\* C6: a read on the cold cache starts a refresh exactly when none is in
\* flight, so that one refresh is in flight after every such read.
C6_ColdStartsOne ==
    (Read /\ Cold) => /\ Cardinality(InFlight) = 1
                      /\ last.started <=> ~last.busy

\* a further read on the cold cache, while the first read's refresh is
\* suspended in its probes
C6_Witness ==
    /\ Read /\ Cold /\ ~last.started
    /\ \E t \in Tasks : task[t].pc \in RunPcs

\* C7: a read of a snapshot not older than the TTL returns it as it is and
\* starts no refresh.
C7_WarmNoRefresh ==
    (Read /\ Warm) => last.resp = _STATUS_CACHE /\ ~last.started

\* a read of a snapshot whose age is the TTL, with no refresh in flight
C7_Witness == Read /\ ~Cold /\ Age = _STATUS_CACHE_TTL_SEC /\ ~last.busy

\* C8: a read of a snapshot older than the TTL, with no refresh in flight,
\* returns the snapshot and starts a refresh.
C8_StaleStartsRefresh ==
    (Read /\ Stale /\ ~last.busy) =>
        /\ last.resp = _STATUS_CACHE
        /\ last.started
        /\ Cardinality(InFlight) = 1

\* a read of a stale snapshot started a refresh
C8_Witness == Read /\ Stale /\ ~last.busy /\ last.started

\* C9: a compute=true call was suspended in its own probes, returns the
\* snapshot it built itself (stamped with its own entry time, no placeholder)
\* and leaves exactly that snapshot in the cache, written at its return.
C9_ComputeState ==
    Computed => /\ last.awaits > 0
                /\ "stale" \notin DOMAIN last.resp
                /\ last.resp.services[1].metrics.time = last.resp.generated_at
                /\ _STATUS_CACHE = last.resp
                /\ _STATUS_CACHE_TS = clock

\* ... and a read that follows it at once returns the same snapshot.
C9_ComputeThenRead ==
    [](C9_ComputeState) /\ [][(Computed /\ Read') => last'.resp = last.resp]_vars

\* a compute=true call returned while a refresh task was suspended in its probes
C9_Witness ==
    /\ Computed /\ last.busy
    /\ \E t \in Tasks : task[t].pc \in RunPcs /\ Len(task[t].services) > 1

Names(snapshot) == [i \in DOMAIN snapshot.services |-> snapshot.services[i].name]

\* C10: every snapshot returned or cached has one entry per probe, in the order
\* api, postgres, redis, rpc, indexer, prices, relay.
C10_FixedServices ==
    /\ last.returned => Names(last.resp) = ServiceNames
    /\ ~Cold => Names(_STATUS_CACHE) = ServiceNames

\* a compute=true call returned with every probe that can fail failing, the
\* database probe excepted
C10_Witness ==
    /\ Computed /\ last.resp.services[2].status = "ok"
    /\ \A i \in {3, 5, 6, 7} : last.resp.services[i].status \in {"down", "unknown"}

\* The entries (by position) whose probe raised or ran into its deadline, with
\* the dependencies in state d.
FailedEntries(d) ==
    {i \in DOMAIN ServiceNames :
        \/ i = 2 /\ d.db = "error"
        \/ i = 3 /\ \/ d.lib = "sync"
                    \/ d.lib = "async" /\ d.broker \in {"unreachable", "timeout"}
        \/ i \in {5, 6, 7} /\ d.db # "ok"}

\* The chain-head call was made and brought no head.
ChainHeadFailed(d) ==
    d.db = "ok" /\ d.rows.updated_at # NoInt /\ d.rpc = "unreachable"

FailuresReported(snapshot) ==
    \A i \in FailedEntries(deps) : snapshot.services[i].status \in {"unknown", "down"}

\* An aggregation run, of a request or of a refresh task, came to its end
\* without an exception and with every failed probe reported unknown or down.
RunsContained ==
    /\ Computed => last.outcome = "200" /\ FailuresReported(last.resp)
    /\ \A t \in Tasks : task[t].pc = "close" =>
            /\ Len(task[t].services) = Len(ServiceNames)
            /\ FailuresReported(Result(task[t].now, task[t].services))
    /\ ~Cold => FailuresReported(_STATUS_CACHE)

C12_StaleFalse ==
    /\ Computed => "stale" \in DOMAIN last.resp /\ ~last.resp.stale
    /\ ~Cold => "stale" \in DOMAIN _STATUS_CACHE /\ ~_STATUS_CACHE.stale
    /\ (last.returned /\ "stale" \in DOMAIN last.resp /\ last.resp.stale) =>
            Read /\ Cold /\ last.resp = Placeholder(clock)
    /\ ~Cold => \A t \in StartTime..clock : _STATUS_CACHE # Placeholder(t)

\* The per-source entries of the prices metrics of the snapshot just computed:
\* each holds the age of the source and _status_from_age of that age under the
\* price thresholds.
PriceSources ==
    IF Computed /\ "sources" \in DOMAIN last.resp.services[6].metrics
    THEN last.resp.services[6].metrics.sources
    ELSE NoMetrics

\* C13 as claimed: for every age and every pair of thresholds the status is ok
\* when age <= ok, degraded when ok < age <= warn, down when age > warn.
C13_AgeMapping ==
    \A src \in DOMAIN PriceSources :
        LET age == PriceSources[src].age_sec
            st == PriceSources[src].status
        IN  /\ age <= price_ok => st = "ok"
            /\ (price_ok < age /\ age <= price_warn) => st = "degraded"
            /\ age > price_warn => st = "down"

\* C13, amended: ok when age <= ok, degraded when ok < age <= warn, down when
\* age is above both thresholds (with warn < ok an age between them is ok);
\* age 45 under ok = 30, warn = 120 is degraded.
C13_AgeMappingOrdered ==
    \A src \in DOMAIN PriceSources :
        LET age == PriceSources[src].age_sec
            st == PriceSources[src].status
        IN  /\ age >= 0
            /\ age <= price_ok => st = "ok"
            /\ (price_ok < age /\ age <= price_warn) => st = "degraded"
            /\ (age > price_warn /\ age > price_ok) => st = "down"
            /\ (age = 45 /\ price_ok = 30 /\ price_warn = 120) => st = "degraded"

\* a source of age 45 was mapped under the thresholds 30 and 120
C13_Witness ==
    /\ price_ok = 30 /\ price_warn = 120
    /\ \E src \in DOMAIN PriceSources : PriceSources[src].age_sec = 45

\* C14: when both price queries answer and no price request is pending, the
\* prices entry is ok whatever the ages of the sources, and without sources.
C14_NoPendingIsOk ==
    (Computed /\ deps.db = "ok" /\ deps.rows.pending = 0) =>
        /\ last.resp.services[6].status = "ok"
        /\ last.resp.services[6].metrics.pending = 0

\* nothing pending, one source older than the warn threshold and one without
\* timestamp
C14_Witness ==
    /\ Computed /\ deps.db = "ok" /\ deps.rows.pending = 0
    /\ \E src \in DOMAIN PriceSources : PriceSources[src].status = "down"
    /\ \E src \in DOMAIN PriceSources : PriceSources[src].age_sec = NoTimestampAge

\* C15: the relay entry is down when the backlog is at least relay_crit,
\* degraded when it is at least relay_warn and below relay_crit, ok otherwise;
\* a backlog of 1500 under warn = 100, crit = 1000 is down.
C15_RelayMapping ==
    Computed =>
        LET e == last.resp.services[7]
            n == deps.rows.backlog
        IN  /\ e.metrics.unpublished = n
            /\ e.status = IF n >= relay_crit THEN "down"
                          ELSE IF relay_warn <= n /\ n < relay_crit THEN "degraded"
                          ELSE "ok"
            /\ (n = 1500 /\ relay_warn = 100 /\ relay_crit = 1000) => e.status = "down"

\* a backlog of 1500 was mapped under the thresholds 100 and 1000
C15_Witness ==
    /\ Computed /\ deps.rows.backlog = 1500
    /\ relay_warn = 100 /\ relay_crit = 1000
    /\ last.resp.services[7].status = "down"

\* Severity: ok < degraded < down.
Severity(st) == CASE st = "ok" -> 0 [] st = "degraded" -> 1 [] st = "down" -> 2
Worse(a, b) == IF Severity(a) >= Severity(b) THEN a ELSE b

AgeStatus(age) ==
    IF age <= idx_ok THEN "ok" ELSE IF age <= idx_warn THEN "degraded" ELSE "down"

\* the indexer row holds a timestamp, so that the age and the lag are derived
IndexerDerived == Computed /\ deps.db = "ok" /\ deps.rows.updated_at # NoInt

\* C16 as claimed: the lag-based status is degraded exactly when a chain head
\* is obtained and head - last_block is above 10 (a NULL last_block gives no
\* difference and counts as not above).
C16_WorstOfAgeAndLag ==
    IndexerDerived =>
        LET e == last.resp.services[5]
            lag_status == IF /\ deps.rpc = "ok"
                             /\ deps.rows.last_block # NoInt
                             /\ deps.rows.head - deps.rows.last_block > BlockLagMax
                          THEN "degraded" ELSE "ok"
        IN  /\ e.status = Worse(AgeStatus(clock - deps.rows.updated_at), lag_status)
            /\ deps.rpc # "ok" => e.status = AgeStatus(clock - deps.rows.updated_at)

\* C16, amended: the lag-based status is degraded exactly when a chain head is
\* obtained, the last indexed block is above 0 and head - last_block is above
\* 10; the entry reports the more severe of it and the age-based status, and
\* the age-based status when no chain head is obtained.
C16_WorstOfAgeAndKnownLag ==
    IndexerDerived =>
        LET e == last.resp.services[5]
            lag_status == IF /\ deps.rpc = "ok"
                             /\ deps.rows.last_block > 0
                             /\ deps.rows.head - deps.rows.last_block > BlockLagMax
                          THEN "degraded" ELSE "ok"
        IN  /\ e.status = Worse(AgeStatus(clock - deps.rows.updated_at), lag_status)
            /\ deps.rpc # "ok" => e.status = AgeStatus(clock - deps.rows.updated_at)

\* a fresh indexer row, 11 blocks behind the head: degraded by the lag alone
C16_Witness ==
    /\ IndexerDerived
    /\ clock - deps.rows.updated_at <= idx_ok
    /\ last.resp.services[5].metrics.block_lag = BlockLagMax + 1
    /\ last.resp.services[5].status = "degraded"

\* A compute=true call returned that found the snapshot of the compute=true
\* call before it in the cache (SpecTwice).
ComputedAgain == Computed /\ last.prev # None

\* C17 as claimed: the two snapshots are equal in every field but generated_at.
C17_SameButGeneratedAt ==
    ComputedAgain =>
        [last.prev EXCEPT !.generated_at = 0] = [last.resp EXCEPT !.generated_at = 0]

\* The parts of an entry that do not derive from the time the call read.
Timeless(e) ==
    CASE e.name = "api" -> [e EXCEPT !.metrics = NoMetrics]
      [] e.name = "indexer" /\ "age_sec" \in DOMAIN e.metrics ->
            [name |-> e.name, last_block |-> e.metrics.last_block,
             chain_head |-> e.metrics.chain_head, block_lag |-> e.metrics.block_lag]
      [] e.name = "prices" /\ "pending" \in DOMAIN e.metrics ->
            [name |-> e.name, detail |-> e.detail, pending |-> e.metrics.pending,
             sources |-> DOMAIN e.metrics.sources]
      [] OTHER -> e

\* C17, amended: two compute=true calls in succession, the dependencies
\* unchanged, return snapshots that are equal in every field when both read the
\* same second, and that otherwise differ in generated_at, in the time of the
\* api entry (which is generated_at) and in what the indexer and prices entries
\* derive from the age of their rows (age_sec, and the status and detail that
\* follow from the age), and in nothing else.
C17_SameButTimeDerived ==
    ComputedAgain =>
        LET a == last.prev
            b == last.resp
        IN  /\ a.thresholds = b.thresholds
            /\ DOMAIN a = DOMAIN b
            /\ DOMAIN a.services = DOMAIN b.services
            /\ \A i \in DOMAIN a.services :
                    Timeless(a.services[i]) = Timeless(b.services[i])
            /\ a.services[1].metrics.time = a.generated_at
            /\ b.services[1].metrics.time = b.generated_at
            /\ a.generated_at = b.generated_at => a = b

\* the second call read a later second than the first and found an indexer row
C17_Witness ==
    /\ ComputedAgain
    /\ last.resp.generated_at > last.prev.generated_at
    /\ last.resp.services[5].status # last.prev.services[5].status

\* C18: a background refresh that has started completes and clears the
\* in-progress flag, also when the database, the broker or the RPC endpoint
\* never answers.
C18_RefreshCompletes ==
    _STATUS_REFRESH_IN_PROGRESS ~> ~_STATUS_REFRESH_IN_PROGRESS

\* C19: when a refresh task has ended, by its return or by an exception, the
\* in-progress flag is false; and whenever the flag is true a refresh task
\* exists.  (The handler of a failed create_task, which resets the flag, cannot
\* run: _schedule_status_refresh is only called from the coroutine get_status,
\* where get_running_loop() does not raise.)
C19_FlagMeansTask ==
    /\ last.ended => ~_STATUS_REFRESH_IN_PROGRESS
    /\ _STATUS_REFRESH_IN_PROGRESS => InFlight # {}

\* a refresh task ended by an exception while a compute=true request was
\* suspended in its probes
C19_Witness ==
    /\ last.ended /\ last.failed
    /\ \E r \in Reqs : req[r].pc \in RunPcs

\* C20: a refresh task that ended by an exception, raised while the session
\* was opened or while it was closed, has not replaced the cache entry.
C20_FailureLeavesCache ==
    (last.ended /\ last.failed) => ~last.stored


(***************************************************************************)
(* C21  Failure isolation.  In the snapshot a compute=true call returns,   *)
(* the prices entry and the relay entry are the ones their own tables give *)
(* (the sources' ages and the pending count, the backlog), whether or not  *)
(* the indexer query of the same run raised.                               *)
(***************************************************************************)
Healthy(d) == [d EXCEPT !.db = "ok"]

OwnTablesAnswer == deps.db \in {"ok", "no_indexer_state"}

C21_ProbesIsolated ==
    (Computed /\ OwnTablesAnswer) =>
        /\ last.resp.services[6].status =
              price_status(last.resp.generated_at, PriceRows(deps),
                           Healthy(deps)).status
        /\ last.resp.services[7].status = relay_status(Healthy(deps)).status

C21_Witness ==
    /\ Computed
    /\ deps.db = "no_indexer_state"
    /\ last.resp.services[5].status = "unknown"
    /\ Backlog(deps) = 0

(***************************************************************************)
(* C22  Concurrent probes.  Whenever an aggregation run is suspended       *)
(* waiting for the answer of one probe, every probe of the run has been    *)
(* started.  A run suspended at pc has started the statements and calls up *)
(* to and including pc, in the order get_status makes them.                *)
(***************************************************************************)
ProbeOrder == <<"db", "redis", "indexer", "head", "prices", "pending", "relay">>

Started(run) ==
    {ProbeOrder[i] : i \in {j \in DOMAIN ProbeOrder :
                              \E k \in DOMAIN ProbeOrder :
                                  j <= k /\ ProbeOrder[k] = run.pc}}

Runs == {req[r] : r \in Reqs} \cup {task[t] : t \in Tasks}

C22_AllProbesStarted ==
    \A run \in Runs : run.pc \in RunPcs => Started(run) = RunPcs

(***************************************************************************)
(* C23  generated_at.  As stated: the snapshot a compute=true call returns *)
(* carries the time at which the call returns.                             *)
(***************************************************************************)
C23_GeneratedAtCompletion == Computed => last.resp.generated_at = clock

(***************************************************************************)
(* C23, amended: generated_at is the time at which the run started.  A run *)
(* reads the clock when it starts and keeps that value while it is in      *)
(* flight; the snapshot a compute=true call returns, and every snapshot    *)
(* written to the cache, carries the value of the run that produced it.    *)
(***************************************************************************)
Starts(before, after) == before.pc \in {"idle", "created"} /\ after.pc \in RunPcs
Continues(before, after) == before.pc \in RunPcs /\ after.pc \in RunPcs

RunKeepsStartTime(before, after) ==
    /\ Starts(before, after) => after.now = clock
    /\ Continues(before, after) => after.now = before.now

C23_GeneratedAtStart ==
    [][/\ \A r \in Reqs : RunKeepsStartTime(req[r], req'[r])
       /\ \A t \in Tasks : RunKeepsStartTime(task[t], task'[t])
       /\ Computed' =>
             \E r \in Reqs : /\ req[r].pc \in RunPcs /\ req'[r].pc = "idle"
                             /\ last'.resp.generated_at = req[r].now
       /\ _STATUS_CACHE' # _STATUS_CACHE =>
             \E run \in Runs : /\ run.pc \in RunPcs
                               /\ _STATUS_CACHE'.generated_at = run.now]_vars

C23_Witness == Computed /\ last.resp.generated_at < clock

(***************************************************************************)
(* C24  Atomic replacement.  In every state a request can read, the cache  *)
(* entry and its timestamp are both absent or both present; a step that    *)
(* changes either of them sets both, the entry to a complete snapshot (all *)
(* seven entries, produced by a run in flight before the step) and the     *)
(* timestamp to the time of that step.                                     *)
(***************************************************************************)
Complete(snapshot) ==
    /\ snapshot # None
    /\ [i \in DOMAIN snapshot.services |-> snapshot.services[i].name] = ServiceNames

CacheWritten ==
    _STATUS_CACHE' # _STATUS_CACHE \/ _STATUS_CACHE_TS' # _STATUS_CACHE_TS

C24_AtomicReplacement ==
    [][/\ (_STATUS_CACHE' = None) <=> (_STATUS_CACHE_TS' = NoTs)
       /\ CacheWritten =>
             /\ Complete(_STATUS_CACHE')
             /\ _STATUS_CACHE_TS' = clock'
             /\ \E run \in Runs :
                   /\ run.pc \in RunPcs
                   /\ _STATUS_CACHE'.generated_at = run.now
                   /\ SubSeq(_STATUS_CACHE'.services, 1, Len(run.services))
                         = run.services]_vars

\* An entry that has been replaced while another run holds a partial list.
C24_Witness ==
    /\ _STATUS_CACHE # None
    /\ _STATUS_CACHE_TS > StartTime
    /\ \E run \in Runs : run.pc \in RunPcs /\ Len(run.services) \in 2..6

(***************************************************************************)
(* C25  Reads leave the cache alone.  A step in which a non-compute call   *)
(* returns leaves the cache entry and its timestamp as they were, whether  *)
(* the cache is cold, warm or stale; the entry is never the placeholder;   *)
(* and a step that changes the entry or the timestamp is the return of an  *)
(* aggregation run (in a refresh task or in a compute=true call).          *)
(***************************************************************************)
Returns(before, after) == before.pc \in RunPcs /\ after.pc \in {"idle", "close"}

C25_ReadsLeaveCache ==
    [][/\ Read' => UNCHANGED <<_STATUS_CACHE, _STATUS_CACHE_TS>>
       /\ ~Cold' => "stale" \notin DOMAIN _STATUS_CACHE'
       /\ CacheWritten =>
             \/ \E r \in Reqs : req[r].compute /\ Returns(req[r], req'[r])
             \/ \E t \in Tasks : Returns(task[t], task'[t])]_vars

\* the placeholder was returned, and a stale entry was returned
C25_ColdWitness == Read /\ Cold /\ "stale" \in DOMAIN last.resp
C25_Witness == Read /\ Stale /\ last.resp = _STATUS_CACHE

(***************************************************************************)
(* C26  Prices with pending requests.  As stated: whenever price requests  *)
(* are pending (and both price statements answer), the status of the       *)
(* prices entry is the status of one of the sources and no source has a    *)
(* more severe one (ok < degraded < down).                                 *)
(***************************************************************************)
PendingAnswered == Computed /\ deps.db = "ok" /\ deps.rows.pending > 0

MostSevere(st, sources) ==
    /\ \E src \in DOMAIN sources : sources[src].status = st
    /\ \A src \in DOMAIN sources : Severity(sources[src].status) <= Severity(st)

SourcesByAge(sources) ==
    \A src \in DOMAIN sources :
        sources[src].status =
            _status_from_age(sources[src].age_sec, price_ok, price_warn)

C26_WorstOfSources ==
    PendingAnswered => MostSevere(last.resp.services[6].status, PriceSources)

(***************************************************************************)
(* C26, amended: with pending requests and at least one source the status  *)
(* is the most severe of the sources' statuses, each the age mapping of    *)
(* that source's age; with pending requests and no source it is unknown.   *)
(***************************************************************************)
C26_WorstOfSourcesOrUnknown ==
    PendingAnswered =>
        /\ SourcesByAge(PriceSources)
        /\ DOMAIN PriceSources = {deps.rows.prices[i].source :
                                     i \in DOMAIN deps.rows.prices}
        /\ IF DOMAIN PriceSources # {}
           THEN MostSevere(last.resp.services[6].status, PriceSources)
           ELSE last.resp.services[6].status = "unknown"

\* pending requests, one source ok and one degraded
C26_Witness ==
    /\ PendingAnswered
    /\ last.resp.services[6].status = "degraded"
    /\ \E src \in DOMAIN PriceSources : PriceSources[src].status = "ok"

(***************************************************************************)
(* C27  Database probe.  In every snapshot stored by a refresh the         *)
(* postgres entry is ok with a liveness query that answered, and down with *)
(* one that raised, its detail the message of the exception cut to at most *)
(* DetailMax characters; and a liveness query that is outstanding leads to *)
(* its entry, also when the database never answers.                        *)
(***************************************************************************)
Prefix(text, msg) ==
    /\ Len(text) <= DetailMax
    /\ Len(text) = Len(msg) \/ Len(text) = DetailMax
    /\ text = SubSeq(msg, 1, Len(text))

PostgresEntry(snapshot) ==
    LET p == snapshot.services[2] IN
    /\ deps.db = "ok" => p.status = "ok"
    /\ deps.db = "error" => p.status = "down" /\ Prefix(p.detail, ErrorText("db"))
    /\ deps.db = "long_error" =>
          p.status = "down" /\ Prefix(p.detail, LongErrorText)

AwaitsLiveness(t) == task[t].pc = "db"

C27_DatabaseProbe ==
    /\ [](~Cold => PostgresEntry(_STATUS_CACHE))
    /\ \A t \in Tasks : AwaitsLiveness(t) ~> ~AwaitsLiveness(t)

(***************************************************************************)
(* C28  Monotonic freshness.  No step replaces the cached snapshot by one  *)
(* with an earlier generated_at, however compute=true calls and refresh    *)
(* tasks interleave.                                                       *)
(***************************************************************************)
C28_FreshnessMonotonic ==
    [][(~Cold /\ ~Cold') =>
          _STATUS_CACHE'.generated_at >= _STATUS_CACHE.generated_at]_vars

(***************************************************************************)
(* C29  The broker probe on both client paths.  With the async client or   *)
(* with the sync client, the redis entry is ok when the stream read        *)
(* succeeds, ok when it fails and the ping succeeds, down when both fail;  *)
(* it is unknown only without a client library or when the probe times     *)
(* out.                                                                    *)
(***************************************************************************)
BrokerStatus(broker) ==
    CASE broker = "ok" -> "ok"
      [] broker = "xrev_denied" -> "ok"
      [] broker = "unreachable" -> "down"
      [] broker = "timeout" -> "unknown"

C29_SameOnBothPaths ==
    Computed =>
        LET st == last.resp.services[3].status IN
        /\ deps.lib \in {"async", "sync"} => st = BrokerStatus(deps.broker)
        /\ st = "unknown" => deps.lib = "none" \/ deps.broker = "timeout"

====
